---- MODULE Spec2Model ----
(***************************************************************************)
(* Model of the aws-lambda component: the deploy operation                 *)
(* (AwsLambda.default), remove, and the helpers of utils.js (getLambda,    *)
(* createLambda, updateLambdaCode, updateLambdaConfig, deleteLambda,       *)
(* configChanged, waitUntilReady, packDir) against a Lambda backend.       *)
(*                                                                         *)
(* An action is the code that runs from the resolution of one awaited      *)
(* backend call to the next await.                                         *)
(***************************************************************************)
EXTENDS Integers, Sequences, FiniteSets, TLC

VARIABLES
    remote,      \* backend: function name -> function record, or NoFunction
    state,       \* this.state, the baseline of the component
    store,       \* what this.save() persisted last
    pc,          \* position of the running operation
    run,         \* the running operation: its name, inputs and start state
    config,      \* config of the running deploy (part_000:57)
    prevLambda,  \* result of getLambda in the running deploy (part_000:96)
    waitFor,     \* the call whose waitUntilReady is running
    elapsed,     \* new Date().getTime() - startTime inside waitUntilReady
    waited,      \* what the last waitUntilReady returned ("none" before any)
    calls,       \* backend calls issued by the running operation, in order
    answers,     \* the answers to them ("ok" or the error code), polls left out
    err,         \* error that ended the operation, or "none"
    last,        \* summary of the last completed operation
    ops,         \* number of operations started
    packing,     \* a call of packDir: its arguments, the tree and the archive
    result       \* what publishVersion returned last, or NoResult

vars == <<remote, state, store, pc, run, config, prevLambda, waitFor,
          elapsed, waited, calls, answers, err, last, ops, packing,
                   result>>

----------------------------------------------------------------------------
(* Bounds *)

MaxOps == 2            \* operations (deploy, remove) per behaviour
MaxLiveOps == 1        \* deploys per behaviour of LiveSpec

----------------------------------------------------------------------------
(* JavaScript values *)

Undefined == "undefined"
Null == [null |-> TRUE]
Unread == [unread |-> TRUE]      \* a variable not assigned yet
EmptyObject == [k \in {} |-> Undefined]

\* obj[k] of JavaScript: undefined when the key is missing
Get(obj, k) == IF k \in DOMAIN obj THEN obj[k] ELSE Undefined

\* a || b of JavaScript on names
Or(a, b) == IF a # Undefined THEN a ELSE b

\* ramda pick: the listed keys that the object has
pick(keys, obj) == [k \in keys \cap DOMAIN obj |-> obj[k]]

\* ramda mergeDeepRight: the right object's keys win
mergeDeepRight(l, r) ==
    [k \in DOMAIN l \cup DOMAIN r |-> IF k \in DOMAIN r THEN r[k] ELSE l[k]]

----------------------------------------------------------------------------
(* part_000: constants *)

outputsList == {"name", "hash", "description", "memory", "timeout", "code",
                "bucket", "shims", "handler", "runtime", "architectures",
                "env", "role", "layer", "arn", "region"}

defaults == [description |-> "AWS Lambda Component",
             memory |-> 512,
             timeout |-> 10,
             code |-> "src1",
             bucket |-> Undefined,
             handler |-> "handler.hello",
             runtime |-> "nodejs18.x",
             architectures |-> <<"arm64">>,
             env |-> {}]

resourceId == "gen"

----------------------------------------------------------------------------
(* utils.js: waitUntilReady constants *)

pollInterval == 5000
waitDurationMillis == 600000

----------------------------------------------------------------------------
(* The Lambda backend (aws-sdk Lambda client), as the code uses it *)

Names == {"f1", resourceId}

NoFunction == [absent |-> TRUE]

Ok(res) == [ok |-> TRUE, res |-> res]
Error(code) == [ok |-> FALSE, code |-> code]

\* errors other than the ones the code classifies
OtherErrors == {"ServiceException"}

Exists(name) == remote[name] # NoFunction

\* sha256 of the bytes, base64: what utils.hashFile computes locally and
\* what the backend reports as CodeSha256
Sha256(bytes) == <<"sha256", bytes>>

\* the bytes the backend takes a function's code from
CodeBytes(Code) ==
    IF "ZipFile" \in DOMAIN Code THEN {Code.ZipFile} ELSE {"src1", "src2"}

FunctionArn(name) == <<"arn:aws:lambda", name>>

\* the function the backend holds after createFunction(params)
CreatedFunction(params, bytes) ==
    [FunctionName |-> params.FunctionName,
     Description |-> params.Description,
     Handler |-> params.Handler,
     MemorySize |-> params.MemorySize,
     Role |-> params.Role,
     Runtime |-> params.Runtime,
     Architectures |-> params.Architectures,
     Timeout |-> params.Timeout,
     Environment |-> params.Environment,
     CodeSha256 |-> Sha256(bytes),
     FunctionArn |-> FunctionArn(params.FunctionName),
     State |-> "Pending",
     LastUpdateStatus |-> "Successful",
     Aliases |-> {}]

\* the function the backend holds after updateFunctionConfiguration(params)
ReconfiguredFunction(fn, params) ==
    [fn EXCEPT !.Description = params.Description,
               !.Handler = params.Handler,
               !.MemorySize = params.MemorySize,
               !.Role = params.Role,
               !.Runtime = params.Runtime,
               !.Architectures = params.Architectures,
               !.Timeout = params.Timeout,
               !.Environment = params.Environment,
               !.LastUpdateStatus = "InProgress"]

\* the function the backend holds after updateFunctionCode(params)
RecodedFunction(fn, bytes) ==
    [fn EXCEPT !.CodeSha256 = Sha256(bytes), !.LastUpdateStatus = "InProgress"]

\* the configuration as the backend returns it: Environment is left out when
\* the function has no variables (the aliases are no part of it)
Configuration(fn) ==
    IF fn.Environment.Variables = {}
    THEN [k \in DOMAIN fn \ {"Environment", "Aliases"} |-> fn[k]]
    ELSE [k \in DOMAIN fn \ {"Aliases"} |-> fn[k]]

\* the version the backend assigns to the snapshot of a function's code
VersionOf(fn) == <<"version", fn.CodeSha256>>

\* answers of the read calls (getFunctionConfiguration, getFunction)
ReadResponses(name) ==
    (IF Exists(name) THEN {Ok(Configuration(remote[name]))}
                     ELSE {Error("ResourceNotFoundException")})
    \cup {Error(c) : c \in OtherErrors}

\* the function after the backend finished creating or updating it
Settled(fn, ok) ==
    IF fn.State = "Pending"
    THEN IF ok THEN [fn EXCEPT !.State = "Active"]
               ELSE [fn EXCEPT !.State = "Failed"]
    ELSE IF ok THEN [fn EXCEPT !.LastUpdateStatus = "Successful"]
               ELSE [fn EXCEPT !.LastUpdateStatus = "Failed"]

\* the backend settles a function that is being created or updated
BackendProgress ==
    /\ \E n \in Names, ok \in BOOLEAN :
          /\ Exists(n)
          /\ remote[n].State = "Pending" \/ remote[n].LastUpdateStatus = "InProgress"
          /\ remote' = [remote EXCEPT ![n] = Settled(@, ok)]
    /\ UNCHANGED <<state, store, pc, run, config, prevLambda, waitFor,
                   elapsed, waited, calls, answers, err, last, ops, packing,
                   result>>

----------------------------------------------------------------------------
(* utils.js *)

\* pack and utils.hashFile: the archive of a source tree is a function of the
\* tree (its bytes are named by the tree), and its hash is the sha256 of it
pack(code) == code
hashFile(zipPath) == Sha256(zipPath)

\* the role component: the arn of the given role, or of the default role
awsIamRole(c) ==
    IF "role" \in DOMAIN c THEN [arn |-> c.role.arn] ELSE [arn |-> "role/default"]

\* params of createFunction, built by createLambda
createParams(c) ==
    [FunctionName |-> c.name,
     Code |-> IF c.bucket # Undefined
              THEN [S3Bucket |-> c.bucket, S3Key |-> c.zipPath]
              ELSE [ZipFile |-> c.zipPath],
     Description |-> c.description,
     Handler |-> c.handler,
     MemorySize |-> c.memory,
     Role |-> c.role.arn,
     Runtime |-> c.runtime,
     Architectures |-> <<Get(c, "architecture")>>,
     Timeout |-> c.timeout,
     Environment |-> [Variables |-> c.env]]

\* params of updateFunctionConfiguration, built by updateLambdaConfig
configParams(c) ==
    [FunctionName |-> c.name,
     Description |-> c.description,
     Handler |-> c.handler,
     MemorySize |-> c.memory,
     Role |-> c.role.arn,
     Runtime |-> c.runtime,
     Architectures |-> <<Get(c, "architecture")>>,
     Timeout |-> c.timeout,
     Environment |-> [Variables |-> c.env]]

\* params of updateFunctionCode, built by updateLambdaCode
codeParams(c) ==
    IF c.bucket # Undefined
    THEN [FunctionName |-> c.name, S3Bucket |-> c.bucket, S3Key |-> c.zipPath]
    ELSE [FunctionName |-> c.name, ZipFile |-> c.zipPath]

\* getLambda with every error taken for "not found"
getLambda_anyErrorIsAbsent(resp) ==
    IF resp.ok
    THEN [throw |-> FALSE,
          value |-> [name |-> resp.res.FunctionName,
                     description |-> resp.res.Description,
                     timeout |-> resp.res.Timeout,
                     runtime |-> resp.res.Runtime,
                     role |-> [arn |-> resp.res.Role],
                     handler |-> resp.res.Handler,
                     memory |-> resp.res.MemorySize,
                     hash |-> resp.res.CodeSha256,
                     env |-> IF "Environment" \in DOMAIN resp.res
                             THEN resp.res.Environment.Variables
                             ELSE {},
                     arn |-> resp.res.FunctionArn]]
    ELSE [throw |-> FALSE, value |-> Null]

\* getLambda on the backend's answer: a value (Null for not found) or a throw
getLambda(resp) ==
    IF resp.ok
    THEN [throw |-> FALSE,
          value |-> [name |-> resp.res.FunctionName,
                     description |-> resp.res.Description,
                     timeout |-> resp.res.Timeout,
                     runtime |-> resp.res.Runtime,
                     role |-> [arn |-> resp.res.Role],
                     handler |-> resp.res.Handler,
                     memory |-> resp.res.MemorySize,
                     hash |-> resp.res.CodeSha256,
                     env |-> IF "Environment" \in DOMAIN resp.res
                             THEN resp.res.Environment.Variables
                             ELSE {},
                     arn |-> resp.res.FunctionArn]]
    ELSE IF resp.code = "ResourceNotFoundException"
         THEN [throw |-> FALSE, value |-> Null]
         ELSE [throw |-> TRUE, error |-> resp.code]

\* deleteLambda without the test of the error code
deleteLambda_rethrowsAll(resp) == IF resp.ok THEN "none" ELSE resp.code

\* deleteLambda on the backend's answer: "none", or the error it throws
deleteLambda(resp) ==
    IF resp.ok THEN "none"
    ELSE IF resp.code # "ResourceNotFoundException" THEN resp.code
         ELSE "none"

configChangedKeys ==
    {"description", "runtime", "role", "handler", "memory", "timeout", "env", "hash"}

\* configChanged with the architectures among the compared keys
configChanged_withArchitectures(prev, lambda) ==
    LET keys == configChangedKeys \cup {"architectures"}
        picked == pick(keys, lambda)
        ins == [picked EXCEPT !.role = [arn |-> picked.role.arn]]
        prevInputs == pick(keys, prev)
    IN  ~(ins = prevInputs)

configChanged(prev, lambda) ==
    LET picked == pick(configChangedKeys, lambda)
        ins == [picked EXCEPT !.role = [arn |-> picked.role.arn]]
        prevInputs == pick(configChangedKeys, prev)
    IN  ~(ins = prevInputs)

\* the test of one poll without the lifecycle state
isReady_statusOnly(cfg) == cfg.LastUpdateStatus = "Successful"

\* waitUntilReady: the test of one poll
isReady(cfg) ==
    cfg.State = "Active" /\ cfg.LastUpdateStatus = "Successful"

----------------------------------------------------------------------------
(* The backend's mutating calls: each answer comes with the backend state
   it leaves *)

Applied(name, fn) ==
    [remote |-> [remote EXCEPT ![name] = fn], resp |-> Ok(Configuration(fn))]

Refused(codes) == {[remote |-> remote, resp |-> Error(c)] : c \in codes}

createFunction(params) ==
    IF Exists(params.FunctionName)
    THEN Refused({"ResourceConflictException"})
    ELSE {Applied(params.FunctionName, CreatedFunction(params, b)) :
              b \in CodeBytes(params.Code)}
         \cup Refused(OtherErrors)

updateFunctionCode(params) ==
    IF ~Exists(params.FunctionName)
    THEN Refused({"ResourceNotFoundException"})
    ELSE {Applied(params.FunctionName,
                  RecodedFunction(remote[params.FunctionName], b)) :
              b \in CodeBytes(params)}
         \cup Refused(OtherErrors)

updateFunctionConfiguration(params) ==
    IF ~Exists(params.FunctionName)
    THEN Refused({"ResourceNotFoundException"})
    ELSE {Applied(params.FunctionName,
                  ReconfiguredFunction(remote[params.FunctionName], params))}
         \cup Refused(OtherErrors)

deleteFunction(params) ==
    IF ~Exists(params.FunctionName)
    THEN Refused({"ResourceNotFoundException"})
    ELSE {[remote |-> [remote EXCEPT ![params.FunctionName] = NoFunction],
           resp |-> Ok(EmptyObject)]}
         \cup Refused(OtherErrors)

\* publishVersion({ FunctionName, CodeSha256 }): the snapshot is taken when the
\* function's code has the given hash
publishVersionCall(params) ==
    IF params.FunctionName = Undefined
    THEN Refused({"MissingRequiredParameter"})
    ELSE IF ~Exists(params.FunctionName)
    THEN Refused({"ResourceNotFoundException"})
    ELSE IF remote[params.FunctionName].CodeSha256 # params.CodeSha256
    THEN Refused({"PreconditionFailedException"})
    ELSE {[remote |-> remote,
           resp |-> Ok([Version |-> VersionOf(remote[params.FunctionName])])]}
         \cup Refused(OtherErrors)

\* createAlias({ FunctionName, Name, FunctionVersion })
createAliasCall(params) ==
    IF params.FunctionName = Undefined
    THEN Refused({"MissingRequiredParameter"})
    ELSE IF ~Exists(params.FunctionName)
    THEN Refused({"ResourceNotFoundException"})
    ELSE IF params.Name \in remote[params.FunctionName].Aliases
    THEN Refused({"ResourceConflictException"})
    ELSE {[remote |-> [remote EXCEPT ![params.FunctionName].Aliases =
                                         @ \cup {params.Name}],
           resp |-> Ok([Name |-> params.Name])]}
         \cup Refused(OtherErrors)

----------------------------------------------------------------------------
(* part_000: AwsLambda.default and AwsLambda.remove.  The code between two
   awaits is an operator on the local state of the operation. *)

SetField(obj, k, v) ==
    [x \in DOMAIN obj \cup {k} |-> IF x = k THEN v ELSE obj[x]]

\* the local state of the running operation
Local == [pc |-> pc, config |-> config, calls |-> calls, answers |-> answers,
          state |-> state,
          err |-> err, prevLambda |-> prevLambda, waitFor |-> waitFor,
          elapsed |-> elapsed, waited |-> waited, result |-> result]

\* an error propagates out of the operation after the outputs were stored
Throw_savesOutputs(L, e) ==
    [L EXCEPT !.pc = "failed", !.err = e, !.state = pick(outputsList, L.config)]

\* an error propagates out of the operation
Throw(L, e) == [L EXCEPT !.pc = "failed", !.err = e]

\* the operation issues a backend call and awaits its answer
Issue(L, call) == [L EXCEPT !.pc = call, !.calls = Append(@, call)]

\* the answer to the awaited call arrives
Answered(L, resp) ==
    [L EXCEPT !.answers = Append(@, IF resp.ok THEN "ok" ELSE resp.code)]

\* waitUntilReady is called: startTime is taken
EnterWait(L, call) ==
    [L EXCEPT !.pc = "wait", !.waitFor = call, !.elapsed = 0,
              !.calls = Append(@, "waitUntilReady")]

\* the config of the run with the name of the inputs before the baseline's
deployConfig_inputNameFirst(in, st) ==
    LET merged == mergeDeepRight(defaults, in)
        named == SetField(merged, "name",
                          Or(Get(in, "name"), Or(Get(st, "name"), resourceId)))
        withRole == SetField(named, "role", awsIamRole(named))
        packed == SetField(withRole, "zipPath", pack(withRole.code))
    IN  SetField(packed, "hash", hashFile(packed.zipPath))

\* default, lines 57-94: the config of the run
deployConfig(in, st) ==
    LET merged == mergeDeepRight(defaults, in)
        named == SetField(merged, "name",
                          Or(Get(st, "name"), Or(Get(in, "name"), resourceId)))
        withRole == SetField(named, "role", awsIamRole(named))
        packed == SetField(withRole, "zipPath", pack(withRole.code))
    IN  SetField(packed, "hash", hashFile(packed.zipPath))

\* default, lines 131-137: the outputs become the baseline, save is awaited
Finish(L) ==
    [L EXCEPT !.state = pick(outputsList, L.config), !.pc = "save"]

\* default, lines 125-129: the function under the old name is deleted
Settle(L) ==
    IF Get(L.state, "name") # Undefined /\ L.state.name # L.config.name
    THEN Issue(L, "deleteFunction")
    ELSE Finish(L)

\* default, line 107: is a code update needed
codeUpdateNeeded(prev, c) ==
    IF "architectures" \notin DOMAIN prev THEN "TypeError"
    ELSE IF \/ prev.architectures[1] # c.architectures[1]
            \/ (c.bucket = Undefined /\ prev.hash # c.hash)
         THEN "yes"
         ELSE "no"

\* default without config.arn = prevLambda.arn
afterGetLambda_noArn(L, r) ==
    IF r.throw THEN Throw(L, r.error)
    ELSE IF r.value = Null
         THEN Issue([L EXCEPT !.prevLambda = r.value], "createFunction")
         ELSE LET L1 == [L EXCEPT !.prevLambda = r.value]
                  code == codeUpdateNeeded(r.value, L1.config)
              IN  IF configChanged(r.value, L1.config)
                  THEN IF code = "TypeError" THEN Throw(L1, "TypeError")
                       ELSE IF code = "yes"
                            THEN Issue(L1, "updateFunctionCode")
                            ELSE Issue(L1, "updateFunctionConfiguration")
                  ELSE Settle(L1)

\* default, lines 96-123: from the answer of getLambda to the next await
afterGetLambda(L, r) ==
    IF r.throw THEN Throw(L, r.error)
    ELSE IF r.value = Null
         THEN Issue([L EXCEPT !.prevLambda = r.value], "createFunction")
         ELSE LET L1 == [L EXCEPT !.prevLambda = r.value,
                                  !.config = SetField(@, "arn", r.value.arn)]
                  code == codeUpdateNeeded(r.value, L1.config)
              IN  IF configChanged(r.value, L1.config)
                  THEN IF code = "TypeError" THEN Throw(L1, "TypeError")
                       ELSE IF code = "yes"
                            THEN Issue(L1, "updateFunctionCode")
                            ELSE Issue(L1, "updateFunctionConfiguration")
                  ELSE Settle(L1)

\* default without the readiness wait after createLambda
afterCreate_noWait(L, resp) ==
    IF resp.ok
    THEN Settle([L EXCEPT !.config =
                        SetField(SetField(@, "arn", resp.res.FunctionArn),
                                 "hash", resp.res.CodeSha256)])
    ELSE Throw(L, resp.code)

\* default keeping the locally computed hash after createLambda
afterCreate_keepsLocalHash(L, resp) ==
    IF resp.ok
    THEN EnterWait([L EXCEPT !.config = SetField(@, "arn", resp.res.FunctionArn)],
                   "createFunction")
    ELSE Throw(L, resp.code)

\* default, lines 100-103: createLambda returns or throws
afterCreate(L, resp) ==
    IF resp.ok
    THEN EnterWait([L EXCEPT !.config =
                        SetField(SetField(@, "arn", resp.res.FunctionArn),
                                 "hash", resp.res.CodeSha256)],
                   "createFunction")
    ELSE Throw(L, resp.code)

\* default, lines 109-110: updateLambdaCode returns or throws
afterUpdateCode(L, resp) ==
    IF resp.ok THEN EnterWait(L, "updateFunctionCode") ELSE Throw(L, resp.code)

\* default, lines 112-121: updateLambdaConfig returns, or throws and is caught
afterUpdateConfig(L, resp) ==
    IF resp.ok
    THEN EnterWait([L EXCEPT !.config = SetField(@, "hash", resp.res.CodeSha256)],
                   "updateFunctionConfiguration")
    ELSE Settle(L)

\* default, lines 103, 110, 117: waitUntilReady returns; its result is dropped
afterWait(L, ready) ==
    LET L1 == [L EXCEPT !.elapsed = 0, !.waited = ready] IN
    IF L.waitFor = "updateFunctionCode"
    THEN Issue(L1, "updateFunctionConfiguration")
    ELSE Settle(L1)

\* waitUntilReady throws (getFunction failed): caught only inside the try
afterWaitThrows(L, e) ==
    LET L1 == [L EXCEPT !.elapsed = 0] IN
    IF L.waitFor = "updateFunctionConfiguration" THEN Settle(L1) ELSE Throw(L1, e)

\* remove without this.state = {}
afterDelete_keepsState(L, op, e) ==
    IF e # "none" THEN Throw(L, e)
    ELSE IF op = "remove"
         THEN [L EXCEPT !.pc = "save"]
         ELSE Finish(L)

\* default, line 128, and remove, lines 210-216: deleteLambda returns or throws
afterDelete(L, op, e) ==
    IF e # "none" THEN Throw(L, e)
    ELSE IF op = "remove"
         THEN [L EXCEPT !.state = EmptyObject, !.pc = "save"]
         ELSE Finish(L)

\* publishVersion with the error of the backend propagated
afterPublish_rethrows(L, resp) ==
    IF resp.ok
    THEN [L EXCEPT !.result = [version |-> resp.res.Version], !.pc = "done"]
    ELSE Throw(L, resp.code)

\* publishVersion, lines 148-155: the call returns, or throws and is caught
afterPublish(L, resp) ==
    IF resp.ok
    THEN [L EXCEPT !.result = [version |-> resp.res.Version], !.pc = "done"]
    ELSE [L EXCEPT !.result = [version |-> ""], !.pc = "done"]

\* Error(e): a new error whose message is the string of e
NewError(e) == "Error: " \o e

\* createAlias with every error of the backend raised
afterAlias_rethrowsAll(L, resp) ==
    IF resp.ok THEN [L EXCEPT !.pc = "done"]
    ELSE Throw(L, NewError(resp.code))

\* createAlias, lines 168-184: the call returns, or throws and is caught
afterAlias(L, resp) ==
    IF resp.ok THEN [L EXCEPT !.pc = "done"]
    ELSE IF resp.code = "ResourceConflictException"
         THEN [L EXCEPT !.pc = "done"]
         ELSE Throw(L, NewError(resp.code))

----------------------------------------------------------------------------
(* utils.js: packDir and getAllFiles.  A file is the sequence of the names
   on its path below the source directory; a path string is the sequence of
   its character codes, which is what sort() compares. *)

Chars == [x \in {"a.js", "b.js", "lib", "node_modules", "shim.js", "src"} |->
            CASE x = "a.js" -> <<97, 46, 106, 115>>
              [] x = "b.js" -> <<98, 46, 106, 115>>
              [] x = "lib" -> <<108, 105, 98>>
              [] x = "node_modules" ->
                    <<110, 111, 100, 101, 95, 109, 111, 100, 117, 108, 101, 115>>
              [] x = "shim.js" -> <<115, 104, 105, 109, 46, 106, 115>>
              [] x = "src" -> <<115, 114, 99>>]

SlashChar == <<47>>

\* the path string dir/name1/name2/...
RECURSIVE JoinPath(_, _)
JoinPath(dir, names) ==
    IF names = <<>> THEN dir
    ELSE JoinPath(dir \o SlashChar \o Chars[Head(names)], Tail(names))

\* s < t for strings, by character code
RECURSIVE StringLess(_, _)
StringLess(s, t) ==
    IF t = <<>> THEN FALSE
    ELSE IF s = <<>> THEN TRUE
    ELSE IF Head(s) # Head(t) THEN Head(s) < Head(t)
    ELSE StringLess(Tail(s), Tail(t))

IsPrefix(p, s) == Len(p) <= Len(s) /\ SubSeq(s, 1, Len(p)) = p

\* file.replace(inputDirPath, ''): every path getAllFiles builds starts with
\* the directory, so the first occurrence is the leading one
RemoveDir(file, dir) ==
    IF IsPrefix(dir, file) THEN SubSeq(file, Len(dir) + 1, Len(file)) ELSE file

\* the name archiver stores for an entry: without the leading slash
EntryName(name) ==
    IF name # <<>> /\ Head(name) = Head(SlashChar) THEN Tail(name) ELSE name

\* fs.readdirSync(dir): the names in dir, in the order the file system lists
\* them (rank)
ReadDir(tree, dir, rank) ==
    LET names == {f[Len(dir) + 1] : f \in {g \in tree : /\ Len(g) > Len(dir)
                                                         /\ IsPrefix(dir, g)}}
    IN  SortSeq(CHOOSE q \in [1..Cardinality(names) -> names] :
                    \A i, j \in DOMAIN q : i # j => q[i] # q[j],
                LAMBDA x, y : rank[x] < rank[y])

IsDirectory(tree, path) == \E f \in tree : Len(f) > Len(path) /\ IsPrefix(path, f)

\* getAllFiles(dirPath, arrayOfFiles), lines 12-26
RECURSIVE getAllFiles(_, _, _, _)
RECURSIVE getAllFilesEach(_, _, _, _, _)
getAllFilesEach(tree, dir, rank, files, arrayOfFiles) ==
    IF files = <<>> THEN arrayOfFiles
    ELSE LET path == Append(dir, Head(files))
         IN  getAllFilesEach(tree, dir, rank, Tail(files),
                 IF IsDirectory(tree, path)
                 THEN getAllFiles(tree, path, rank, arrayOfFiles)
                 ELSE Append(arrayOfFiles, path))

getAllFiles(tree, dir, rank, arrayOfFiles) ==
    getAllFilesEach(tree, dir, rank, ReadDir(tree, dir, rank), arrayOfFiles)

isValidFormat(format) == format \in {"zip", "tar"}

\* path.basename(file) of a shim given by the names on its path
Basename(file) == Chars[file[Len(file)]]

\* packDir without the sort of the file list
packDir_unsorted(tree, rank, inputDirPath, format, include, exclude) ==
    IF ~isValidFormat(format) THEN [pc |-> "failed", entries |-> <<>>]
    ELSE LET all == getAllFiles(tree, <<>>, rank, <<>>)
             paths == [i \in DOMAIN all |-> JoinPath(inputDirPath, all[i])]
             sorted == paths
             files == [i \in DOMAIN sorted |->
                          [name |-> EntryName(RemoveDir(sorted[i], inputDirPath)),
                           date |-> 0]]
             shims == [i \in DOMAIN include |->
                          [name |-> Basename(include[i]), date |-> 0]]
         IN  [pc |-> "packed", entries |-> files \o shims, files |-> Len(files)]

\* packDir, lines 28-74: the entries appended to the archive, in order, or
\* the error thrown.  The patterns built from exclude are not used.
packDir(tree, rank, inputDirPath, format, include, exclude) ==
    IF ~isValidFormat(format) THEN [pc |-> "failed", entries |-> <<>>]
    ELSE LET all == getAllFiles(tree, <<>>, rank, <<>>)
             paths == [i \in DOMAIN all |-> JoinPath(inputDirPath, all[i])]
             sorted == SortSeq(paths, StringLess)
             files == [i \in DOMAIN sorted |->
                          [name |-> EntryName(RemoveDir(sorted[i], inputDirPath)),
                           date |-> 0]]
             shims == [i \in DOMAIN include |->
                          [name |-> Basename(include[i]), date |-> 0]]
         IN  [pc |-> "packed", entries |-> files \o shims, files |-> Len(files)]

\* the files of the universe the trees are drawn from
Files == {<<"a.js">>, <<"b.js">>, <<"lib", "a.js">>, <<"node_modules", "a.js">>,
          <<"node_modules", "lib", "b.js">>}

\* orders in which a file system may list names
Ranks ==
    {[x \in {"a.js", "b.js", "lib", "node_modules"} |->
         CASE x = "a.js" -> r[1] [] x = "b.js" -> r[2] [] x = "lib" -> r[3]
           [] x = "node_modules" -> r[4]] :
     r \in {<<1, 2, 3, 4>>, <<4, 3, 2, 1>>, <<2, 4, 1, 3>>}}

\* exclude patterns: dir/** for a directory name
Excludes == {{}, {"node_modules"}, {"lib"}}

PackCalls ==
    [tree : SUBSET Files, rank : Ranks, dir : {SlashChar \o Chars["src"]},
     format : {"zip", "tar", "gz"},
     include : {<<>>, <<<<"lib", "shim.js">>>>, <<<<"shim.js">>, <<"lib", "a.js">>>>},
     exclude : Excludes, pc : {"called"}]

\* packDir is called and returns the archive or throws
PackDir ==
    /\ packing.pc = "called"
    /\ LET r == packDir(packing.tree, packing.rank, packing.dir, packing.format,
                        packing.include, packing.exclude)
       IN  packing' = [k \in DOMAIN packing \cup DOMAIN r |->
                          IF k \in DOMAIN r THEN r[k] ELSE packing[k]]
    /\ UNCHANGED <<remote, state, store, pc, run, config, prevLambda, waitFor,
                   elapsed, waited, calls, answers, err, last, ops, result>>

----------------------------------------------------------------------------
(* Inputs and initial states *)

\* the inputs a deploy is called with: the defaults under a name, and one
\* changed setting each
InputsSet ==
    {[name |-> "f1"],
     EmptyObject,
     [name |-> "f1", env |-> {<<"KEY", "value">>}],
     [name |-> "f1", code |-> "src2"],
     [name |-> "f1", architectures |-> <<"x86_64">>],
     [name |-> "f1", bucket |-> "bucket1"]}

\* functions that may exist under the name f1 before the first operation
PreInputs == {[name |-> "f1"]}

\* a function with these settings, created outside the component and settled
Preexisting(in) ==
    LET c == deployConfig(in, EmptyObject)
    IN  [CreatedFunction(createParams(c), c.zipPath)
            EXCEPT !.Architectures = c.architectures,
                   !.State = "Active", !.LastUpdateStatus = "Successful",
                   !.Aliases = {"prod"}]

NoPacking == [pc |-> "none"]

NoResult == [none |-> TRUE]

\* the arguments createAlias is called with
AliasInputs == {[alias |-> "prod", version |-> "1"]}

Init ==
    /\ packing = NoPacking
    /\ result = NoResult
    /\ \E fn \in {NoFunction} \cup {Preexisting(in) : in \in PreInputs} :
           remote = [n \in Names |-> IF n = "f1" THEN fn ELSE NoFunction]
    /\ state = EmptyObject
    /\ store = EmptyObject
    /\ pc = "idle"
    /\ run = [op |-> "none"]
    /\ config = EmptyObject
    /\ prevLambda = Unread
    /\ waitFor = "none"
    /\ elapsed = 0
    /\ waited = "none"
    /\ calls = <<>>
    /\ answers = <<>>
    /\ err = "none"
    /\ last = [n |-> 0]
    /\ ops = 0

----------------------------------------------------------------------------
(* Actions *)

Ended(p) == p \in {"done", "failed"}

Summary(L, r) == [n |-> ops', op |-> r.op, inputs |-> r.inputs,
                  scratch |-> r.scratch, calls |-> L.calls, state |-> L.state]

\* the operation moves to the local state L
Become(L) ==
    /\ UNCHANGED <<run, ops, packing>>
    /\ pc' = L.pc
    /\ config' = L.config
    /\ calls' = L.calls
    /\ answers' = L.answers
    /\ state' = L.state
    /\ err' = L.err
    /\ prevLambda' = L.prevLambda
    /\ waitFor' = L.waitFor
    /\ elapsed' = L.elapsed
    /\ waited' = L.waited
    /\ result' = L.result
    /\ last' = IF L.pc = "done" THEN Summary(L, run') ELSE last

Fresh == [pc |-> "idle", config |-> EmptyObject, calls |-> <<>>,
          answers |-> <<>>, state |-> state,
          err |-> "none", prevLambda |-> Unread, waitFor |-> "none",
          elapsed |-> 0, waited |-> "none", result |-> NoResult]

Scratch == state = EmptyObject /\ \A n \in Names : ~Exists(n)

\* what is known of an operation when it starts
Started(op, in) == [op |-> op, inputs |-> in, baseline |-> state,
                    store |-> store, remote |-> remote, scratch |-> Scratch]

\* an operation starts and runs to the local state L
Begin(op, in, L) ==
    /\ pc \in {"idle", "done", "failed"}
    /\ ops < MaxOps
    /\ ops' = ops + 1
    /\ run' = Started(op, in)
    /\ UNCHANGED packing
    /\ pc' = L.pc
    /\ config' = L.config
    /\ calls' = L.calls
    /\ answers' = L.answers
    /\ state' = L.state
    /\ err' = L.err
    /\ prevLambda' = L.prevLambda
    /\ waitFor' = L.waitFor
    /\ elapsed' = L.elapsed
    /\ waited' = L.waited
    /\ result' = L.result
    /\ last' = IF L.pc = "done" THEN Summary(L, run') ELSE last

\* default, lines 54-96: up to the await of getLambda; packing may fail
Default(in) ==
    /\ \E packed \in BOOLEAN :
          LET L == [Fresh EXCEPT !.config = deployConfig(in, state)]
          IN  IF packed
              THEN Begin("deploy", in, Issue(L, "getFunctionConfiguration"))
              ELSE Begin("deploy", in, Throw(L, "IOError"))
    /\ UNCHANGED <<remote, store>>

\* getLambda's getFunctionConfiguration is answered
GetLambdaReturns ==
    /\ pc = "getFunctionConfiguration"
    /\ \E resp \in ReadResponses(config.name) :
          Become(afterGetLambda(Answered(Local, resp), getLambda(resp)))
    /\ UNCHANGED <<remote, store>>

\* createFunction, updateFunctionCode or updateFunctionConfiguration is
\* answered
MutationReturns ==
    /\ pc \in {"createFunction", "updateFunctionCode", "updateFunctionConfiguration"}
    /\ \E o \in IF pc = "createFunction"
                THEN createFunction(createParams(config))
                ELSE IF pc = "updateFunctionCode"
                     THEN updateFunctionCode(codeParams(config))
                     ELSE updateFunctionConfiguration(configParams(config)) :
          /\ remote' = o.remote
          /\ Become(IF pc = "createFunction"
                    THEN afterCreate(Answered(Local, o.resp), o.resp)
                    ELSE IF pc = "updateFunctionCode"
                         THEN afterUpdateCode(Answered(Local, o.resp), o.resp)
                         ELSE afterUpdateConfig(Answered(Local, o.resp), o.resp))
    /\ UNCHANGED store

\* waitUntilReady, lines 285-290: one turn of the loop; the clock advances by
\* the sleep (the time the call itself takes is not counted)
WaitPoll ==
    /\ pc = "wait"
    /\ elapsed < waitDurationMillis
    /\ \E resp \in ReadResponses(config.name) :
          IF resp.ok
          THEN IF isReady(resp.res)
               THEN Become(afterWait(Local, "true"))
               ELSE Become([Local EXCEPT !.elapsed = @ + pollInterval])
          ELSE Become(afterWaitThrows(Local, resp.code))
    /\ UNCHANGED <<remote, store>>

\* waitUntilReady, lines 285 and 292: the time is up
WaitTimeout ==
    /\ pc = "wait"
    /\ ~(elapsed < waitDurationMillis)
    /\ Become(afterWait(Local, "false"))
    /\ UNCHANGED <<remote, store>>

\* remove, lines 187-210: up to the await of deleteLambda; the removal of the
\* role or of the layer (lines 206-207) may fail
Remove ==
    /\ IF Get(state, "name") = Undefined
       THEN Begin("remove", EmptyObject, [Fresh EXCEPT !.pc = "done"])
       ELSE \E removed \in BOOLEAN :
               IF removed
               THEN Begin("remove", EmptyObject, Issue(Fresh, "deleteFunction"))
               ELSE Begin("remove", EmptyObject, Throw(Fresh, "ChildError"))
    /\ UNCHANGED <<remote, store>>

\* deleteLambda's deleteFunction is answered
DeleteReturns ==
    /\ pc = "deleteFunction"
    /\ \E o \in deleteFunction([FunctionName |-> state.name]) :
          /\ remote' = o.remote
          /\ Become(afterDelete(Answered(Local, o.resp), run.op,
                                deleteLambda(o.resp)))
    /\ UNCHANGED store

\* publishVersion, lines 141-149: up to the await of lambda.publishVersion
PublishVersion ==
    /\ Begin("publishVersion", EmptyObject, Issue(Fresh, "publishVersion"))
    /\ UNCHANGED <<remote, store>>

\* lambda.publishVersion is answered
PublishReturns ==
    /\ pc = "publishVersion"
    /\ \E o \in publishVersionCall([FunctionName |-> Get(state, "name"),
                                     CodeSha256 |-> Get(state, "hash")]) :
          /\ remote' = o.remote
          /\ Become(afterPublish(Answered(Local, o.resp), o.resp))
    /\ UNCHANGED store

\* createAlias, lines 158-175: up to the await of lambda.createAlias
CreateAlias(in) ==
    /\ Begin("createAlias", in, Issue(Fresh, "createAlias"))
    /\ UNCHANGED <<remote, store>>

\* lambda.createAlias is answered
AliasReturns ==
    /\ pc = "createAlias"
    /\ \E o \in createAliasCall([FunctionName |-> Get(state, "name"),
                                  Name |-> run.inputs.alias,
                                  FunctionVersion |-> run.inputs.version]) :
          /\ remote' = o.remote
          /\ Become(afterAlias(Answered(Local, o.resp), o.resp))
    /\ UNCHANGED store

\* this.save() persists the baseline and the operation returns
Save ==
    /\ pc = "save"
    /\ store' = state
    /\ Become([Local EXCEPT !.pc = "done"])
    /\ UNCHANGED remote

\* between two operations the function of the baseline is deleted outside
\* the component
ExternalDelete ==
    /\ pc \in {"idle", "done", "failed"}
    /\ Get(state, "name") # Undefined
    /\ Exists(state.name)
    /\ remote' = [remote EXCEPT ![state.name] = NoFunction]
    /\ UNCHANGED <<state, store, pc, run, config, prevLambda, waitFor,
                   elapsed, waited, calls, answers, err, last, ops, packing,
                   result>>

Next ==
    \/ \E in \in InputsSet : Default(in)
    \/ Remove
    \/ GetLambdaReturns
    \/ MutationReturns
    \/ WaitPoll
    \/ WaitTimeout
    \/ DeleteReturns
    \/ Save
    \/ PublishVersion
    \/ PublishReturns
    \/ \E in \in AliasInputs : CreateAlias(in)
    \/ AliasReturns
    \/ BackendProgress
    \/ ExternalDelete

Spec == Init /\ [][Next]_vars

\* calls of packDir
PackInit ==
    /\ packing \in PackCalls
    /\ result = NoResult
    /\ remote = [n \in Names |-> NoFunction]
    /\ state = EmptyObject
    /\ store = EmptyObject
    /\ pc = "idle"
    /\ run = [op |-> "none"]
    /\ config = EmptyObject
    /\ prevLambda = Unread
    /\ waitFor = "none"
    /\ elapsed = 0
    /\ waited = "none"
    /\ calls = <<>>
    /\ answers = <<>>
    /\ err = "none"
    /\ last = [n |-> 0]
    /\ ops = 0

PackSpec == PackInit /\ [][PackDir]_vars

\* deploys only, for the progress of waitUntilReady
LiveNext ==
    \/ \E in \in InputsSet : Default(in) /\ ops' <= MaxLiveOps
    \/ GetLambdaReturns
    \/ MutationReturns
    \/ WaitPoll
    \/ WaitTimeout
    \/ Save
    \/ BackendProgress
    \/ ExternalDelete

\* the event loop runs the loop of waitUntilReady whenever it can go on
LiveSpec ==
    Init /\ [][LiveNext]_vars /\ WF_vars(WaitPoll) /\ WF_vars(WaitTimeout)

----------------------------------------------------------------------------
(* Properties *)

GET == "getFunctionConfiguration"
CREATE == "createFunction"
WAIT == "waitUntilReady"
UPDATE_CODE == "updateFunctionCode"
UPDATE_CONFIG == "updateFunctionConfiguration"
DELETE == "deleteFunction"
NOT_FOUND == "ResourceNotFoundException"

MutatingCalls == {CREATE, UPDATE_CODE, UPDATE_CONFIG, DELETE}

CallsOf(cs, c) == Cardinality({i \in DOMAIN cs : cs[i] = c})

Deploying == run.op = "deploy"

\* getLambda returned a function in the running deploy
Observed == Deploying /\ prevLambda # Unread /\ prevLambda # Null

\* the observed config equals the desired one on every compared field
SameOnComparedFields(prev, c) ==
    /\ prev.description = c.description
    /\ prev.runtime = c.runtime
    /\ prev.role.arn = c.role.arn
    /\ prev.handler = c.handler
    /\ prev.memory = c.memory
    /\ prev.timeout = c.timeout
    /\ prev.env = c.env
    /\ prev.hash = c.hash

\* C1: in a deploy whose getLambda reported the function absent, the calls
\* issued are getFunctionConfiguration, one createFunction and, once
\* createFunction has answered ok, the readiness wait, in that order; no
\* updateFunctionCode and no updateFunctionConfiguration is ever issued.
C1_AbsentYieldsCreate ==
    (Deploying /\ prevLambda = Null) =>
        /\ CallsOf(calls, CREATE) = 1
        /\ CallsOf(calls, UPDATE_CODE) = 0
        /\ CallsOf(calls, UPDATE_CONFIG) = 0
        /\ calls \in {<<GET, CREATE>>, <<GET, CREATE, WAIT>>}
        /\ (Len(answers) = 2 /\ answers[2] = "ok") => calls = <<GET, CREATE, WAIT>>
        /\ pc \in {"save", "done"} => calls = <<GET, CREATE, WAIT>>

C1_Witness ==
    /\ Deploying /\ prevLambda = Null
    /\ pc = "done" /\ waited = "true"
    /\ calls = <<GET, CREATE, WAIT>>

\* C2: in a deploy that observed the function with every compared field equal
\* to the desired config, no mutating call is issued and the run goes on to
\* make the outputs the baseline and to persist them.
C2_EqualYieldsNoOp ==
    (Observed /\ SameOnComparedFields(prevLambda, config)) =>
        /\ calls = <<GET>>
        /\ pc \in {"save", "done"}
        /\ state = pick(outputsList, config)
        /\ pc = "done" => store = state

C2_Witness ==
    /\ Observed /\ SameOnComparedFields(prevLambda, config)
    /\ pc = "done" /\ calls = <<GET>> /\ store = state
    /\ state.arn = prevLambda.arn

\* the answer to the deleteFunction call of the running operation has arrived
DeleteAnswered ==
    /\ calls # <<>>
    /\ calls[Len(calls)] = DELETE
    /\ pc # DELETE

\* C8: when deleteFunction answers ResourceNotFoundException, deleteLambda
\* raises nothing and the operation goes on; when it answers any other error,
\* the operation fails with that error.
C8_DeleteIdempotent ==
    DeleteAnswered =>
        LET a == answers[Len(answers)]
        IN  /\ a = NOT_FOUND => (pc \in {"save", "done"} /\ err = "none")
            /\ a \notin {"ok", NOT_FOUND} => (pc = "failed" /\ err = a)

C8_Witness ==
    /\ DeleteAnswered
    /\ answers[Len(answers)] = NOT_FOUND
    /\ pc = "done" /\ err = "none"

\* C9: getLambda returns null exactly when getFunctionConfiguration answered
\* ResourceNotFoundException; on any other error the deploy fails with that
\* error, having issued no other call, with this.state and the persisted
\* baseline as they were when the run started.
C9_ReadErrorAborts ==
    (Deploying /\ Len(answers) >= 1) =>
        /\ prevLambda = Null <=> answers[1] = NOT_FOUND
        /\ answers[1] \notin {"ok", NOT_FOUND} =>
              /\ pc = "failed" /\ err = answers[1]
              /\ calls = <<GET>>
              /\ state = run.baseline /\ store = run.store

C9_Witness ==
    /\ Deploying
    /\ answers = <<"ServiceException">>
    /\ pc = "failed" /\ calls = <<GET>>
    /\ Get(state, "name") # Undefined

\* the existing function differs from the desired config in the environment
\* variables only: same compared fields otherwise, same architecture, same hash
OnlyEnvDiffers(prev, c, fn) ==
    /\ prev.description = c.description
    /\ prev.runtime = c.runtime
    /\ prev.role.arn = c.role.arn
    /\ prev.handler = c.handler
    /\ prev.memory = c.memory
    /\ prev.timeout = c.timeout
    /\ prev.hash = c.hash
    /\ fn.Architectures = c.architectures
    /\ prev.env # c.env

\* C3: a deploy that observed the function differing in the environment
\* variables only ends having issued exactly one updateFunctionConfiguration
\* and no updateFunctionCode.
C3_EnvOnlyConfigUpdate ==
    (/\ Observed
     /\ Ended(pc)
     /\ Exists(config.name)
     /\ OnlyEnvDiffers(prevLambda, config, remote[config.name])) =>
        /\ CallsOf(calls, UPDATE_CONFIG) = 1
        /\ CallsOf(calls, UPDATE_CODE) = 0

\* C4: a deploy that observed the function with another architecture than
\* the desired one completes with the calls updateFunctionCode, readiness
\* wait, updateFunctionConfiguration, readiness wait, in that order.
C4_ArchitectureChange ==
    (/\ Observed
     /\ pc = "done"
     /\ Exists(config.name)
     /\ remote[config.name].Architectures[1] # Undefined
     /\ remote[config.name].Architectures # config.architectures) =>
        calls = <<GET, UPDATE_CODE, WAIT, UPDATE_CONFIG, WAIT>>

\* a completed deploy that started with no remote function and no baseline
FromScratch(h) == h.n >= 1 /\ h.op = "deploy" /\ h.scratch

\* the running deploy follows such a deploy directly, with the same inputs,
\* and the function that deploy created is still there
SecondRun ==
    /\ Deploying
    /\ FromScratch(last)
    /\ ops = last.n + 1
    /\ run.inputs = last.inputs
    /\ run.remote[last.state.name] # NoFunction

FirstRunCreated(h) ==
    /\ h.calls = <<GET, CREATE, WAIT>>
    /\ Get(h.state, "arn") = FunctionArn(h.state.name)

SecondRunNoOp ==
    /\ \A c \in MutatingCalls : CallsOf(calls, c) = 0
    /\ (Len(answers) >= 1 /\ answers[1] = "ok") =>
          /\ Observed
          /\ SameOnComparedFields(prevLambda, config)
          /\ pc \in {"save", "done"}

\* C5 as claimed: the first deploy from scratch creates the function, waits
\* and stores a baseline with the backend's ARN; a second deploy with the
\* same inputs issues no mutating call and, once the read has answered,
\* finds no compared field different.
C5_SecondDeployNoOp ==
    /\ FromScratch(last) => FirstRunCreated(last)
    /\ SecondRun => SecondRunNoOp

\* C5 as amended: the same, for the second deploys whose locally computed
\* hash equals the hash the backend reported for the created function.
C5_SecondDeployNoOpSameHash ==
    /\ FromScratch(last) => FirstRunCreated(last)
    /\ (SecondRun /\ last.state.hash = config.hash) => SecondRunNoOp

C5_Witness ==
    /\ SecondRun
    /\ last.state.hash = config.hash
    /\ pc = "save"
    /\ calls = <<GET>>
    /\ state = last.state

\* one step of waitUntilReady
C7_WaitStep ==
    pc = "wait" =>
        LET ready == /\ Exists(config.name)
                     /\ remote[config.name].State = "Active"
                     /\ remote[config.name].LastUpdateStatus = "Successful"
            timeUp == elapsed >= 600 * 1000
        IN  /\ pc' = "wait" =>
                  \/ elapsed' = elapsed
                  \/ elapsed' = elapsed + 5000 /\ ~ready /\ ~timeUp
            /\ pc' \notin {"wait", "failed"} =>
                  /\ waited' \in {"true", "false"}
                  /\ waited' = "true" <=> (ready /\ ~timeUp)
                  /\ waited' = "false" <=> timeUp
            /\ (timeUp /\ pc' # "wait") => pc' # "failed"

\* C7: waitUntilReady polls every 5 s; it returns true at the first poll that
\* reports Active and Successful and polls no more; it returns false, without
\* raising, once 600 s have elapsed; and it always terminates.
C7_WaitUntilReady ==
    /\ [][C7_WaitStep]_vars
    /\ (pc = "wait") ~> (pc # "wait")

C7_Witness ==
    /\ Deploying
    /\ waited = "false"
    /\ pc = "done"
    /\ remote[config.name].State = "Pending"

\* In every deploy, updateFunctionCode and updateFunctionConfiguration are never
\* issued: getLambda returns no architectures, so the test of line 107 throws
\* whenever configChanged is true; and default never deletes, because
\* config.name is this.state.name whenever this.state.name is set.
UpdatesNeverIssued ==
    /\ pc \notin {UPDATE_CODE, UPDATE_CONFIG}
    /\ ~(Deploying /\ pc = DELETE)

\* a file matches the pattern dir/** when it lies below dir
Matches(file, dir) == Len(file) > 1 /\ file[1] = dir

Excluded(file, exclude) == \E d \in exclude : Matches(file, d)

\* the names of the archive's entries that come from the source tree
SourceEntryNames == {packing.entries[i].name : i \in 1..packing.files}

\* C10: the entries of the archive that come from the source tree are the
\* files of the tree that match no exclude pattern.
C10_ExcludeRemovesFiles ==
    packing.pc = "packed" =>
        SourceEntryNames =
            {EntryName(JoinPath(<<>>, f)) :
                 f \in {g \in packing.tree : ~Excluded(g, packing.exclude)}}

\* C11: the entries of the archive do not depend on the order in which the
\* file system lists the directories: they are the files of the tree in
\* ascending order of their relative paths, then the shims in the order given
\* under their base names, every entry dated at the epoch; packing the same
\* tree again under any other listing order yields the same entries.
C11_PackDeterministic ==
    packing.pc = "packed" =>
        /\ \A r \in Ranks :
              packDir(packing.tree, r, packing.dir, packing.format,
                      packing.include, packing.exclude).entries = packing.entries
        /\ \A i, j \in 1..packing.files :
              i < j => StringLess(packing.entries[i].name, packing.entries[j].name)
        /\ Len(packing.entries) = packing.files + Len(packing.include)
        /\ \A i \in DOMAIN packing.include :
              packing.entries[packing.files + i].name = Basename(packing.include[i])
        /\ \A i \in DOMAIN packing.entries : packing.entries[i].date = 0

C11_Witness ==
    /\ packing.pc = "packed"
    /\ {<<"a.js">>, <<"b.js">>, <<"node_modules", "lib", "b.js">>} \subseteq packing.tree
    /\ packing.rank["b.js"] < packing.rank["a.js"]
    /\ Len(packing.include) = 2
    /\ packing.files >= 3

\* the answer to the one backend call of the running operation has arrived
OnlyCallAnswered(op) == run.op = op /\ Len(answers) = 1

\* C12: publishVersion never ends in an error; when the backend's
\* publishVersion fails it returns the empty version; when it succeeds the
\* function held the baseline's hash and the version returned is the one the
\* backend assigned to that snapshot.
C12_PublishNeverThrows ==
    run.op = "publishVersion" =>
        /\ pc # "failed" /\ err = "none"
        /\ state = run.baseline /\ store = run.store
        /\ OnlyCallAnswered("publishVersion") =>
              /\ pc = "done"
              /\ calls = <<"publishVersion">>
              /\ answers[1] # "ok" => result = [version |-> ""]
              /\ answers[1] = "ok" =>
                    /\ run.remote[state.name].CodeSha256 = state.hash
                    /\ result = [version |-> VersionOf(run.remote[state.name])]

C12_Witness ==
    /\ OnlyCallAnswered("publishVersion")
    /\ answers[1] = "ServiceException"
    /\ Get(state, "name") # Undefined
    /\ run.remote[state.name] # NoFunction
    /\ pc = "done" /\ result = [version |-> ""]

\* C13: when createAlias of the backend answers ResourceConflictException the
\* operation completes without an error; on every other error it fails with
\* an error made of the backend's.
C13_AliasIdempotent ==
    OnlyCallAnswered("createAlias") =>
        /\ answers[1] \in {"ok", "ResourceConflictException"} =>
              (pc = "done" /\ err = "none")
        /\ answers[1] \notin {"ok", "ResourceConflictException"} =>
              (pc = "failed" /\ err = NewError(answers[1]))
        /\ state = run.baseline /\ store = run.store

C13_Witness ==
    /\ OnlyCallAnswered("createAlias")
    /\ answers[1] = "ResourceConflictException"
    /\ pc = "done" /\ err = "none"
    /\ run.inputs.alias \in run.remote[state.name].Aliases

\* the running deploy was called with a name that is not the baseline's
Renaming ==
    /\ Deploying
    /\ Get(run.baseline, "name") # Undefined
    /\ Get(run.inputs, "name") # Undefined
    /\ run.inputs.name # run.baseline.name

\* C14: a completed deploy whose inputs name another function than the
\* baseline has worked on the function of the inputs' name, has created or
\* updated it, and has deleted the function of the baseline's name last.
C14_RenameReplaces ==
    (Renaming /\ pc = "done") =>
        /\ config.name = run.inputs.name
        /\ state.name = run.inputs.name
        /\ calls[Len(calls)] = DELETE
        /\ \E i \in 1..(Len(calls) - 1) : calls[i] \in {CREATE, UPDATE_CONFIG}

\* C15: a deploy that observed the function with some compared field
\* different ends having issued updateFunctionCode exactly when the
\* architecture changed or no bucket is configured and the hash differs;
\* when it issued none, it issued one updateFunctionConfiguration.
C15_CodeUpdateIff ==
    (Observed /\ Ended(pc) /\ ~SameOnComparedFields(prevLambda, config)) =>
        LET needed ==
                \/ run.remote[config.name].Architectures # config.architectures
                \/ (config.bucket = Undefined /\ prevLambda.hash # config.hash)
        IN  /\ CallsOf(calls, UPDATE_CODE) >= 1 <=> needed
            /\ ~needed => (/\ CallsOf(calls, UPDATE_CODE) = 0
                           /\ CallsOf(calls, UPDATE_CONFIG) = 1)

\* C17: when a deploy has made its outputs the baseline and is about to
\* persist them, the function exists, the baseline's hash is the hash the
\* backend holds for it and the baseline's arn is the one the backend
\* assigned; when the deploy has returned, that baseline is persisted.
C17_BaselineIsBackends ==
    Deploying =>
        /\ pc = "save" =>
              /\ Exists(config.name)
              /\ state.name = config.name
              /\ {"hash", "arn"} \subseteq DOMAIN state
              /\ state.hash = remote[config.name].CodeSha256
              /\ state.arn = remote[config.name].FunctionArn
        /\ pc = "done" => store = state

C17_Witness ==
    /\ Deploying
    /\ pc = "save"
    /\ calls = <<GET, CREATE, WAIT>>
    /\ config.bucket # Undefined
    /\ state.hash # hashFile(config.zipPath)
    /\ state.hash = remote[config.name].CodeSha256

\* C18: as long as a deploy has not reached the assignment of its outputs,
\* and so whenever it has ended in an error, this.state and the persisted
\* state are those of the start of the run.
C18_AbortKeepsBaseline ==
    (Deploying /\ pc \notin {"save", "done"}) =>
        /\ state = run.baseline
        /\ store = run.store

C18_Witness ==
    /\ Deploying
    /\ pc = "failed"
    /\ calls = <<GET, CREATE, WAIT>>
    /\ err = "ServiceException"
    /\ Get(state, "name") # Undefined
    /\ state = run.baseline /\ store = run.store

\* one step: outside remove the name of the baseline stays; a deploy runs
\* under the baseline's name and has issued no deleteFunction
C19_Step ==
    /\ (Get(state, "name") # Undefined /\ run'.op # "remove") =>
           Get(state', "name") = state.name
    /\ run'.op = "deploy" =>
           /\ CallsOf(calls', DELETE) = 0
           /\ Get(run'.baseline, "name") # Undefined =>
                  config'.name = run'.baseline.name

\* C19: once the baseline has a name, every deploy runs under that name
\* whatever name its inputs carry, the name of the baseline changes in no
\* step of an operation other than remove, and no deploy issues
\* deleteFunction.
C19_NameIsSticky == [][C19_Step]_vars

C19_Witness ==
    /\ Renaming
    /\ pc = "done"
    /\ state.name = run.baseline.name
    /\ config.name # run.inputs.name

\* C20: a remove without a name in the baseline returns at once, with no
\* call and the baseline as it was; a remove with a name that returns has
\* issued one deleteFunction, answered ok or not found, and leaves the
\* baseline and the persisted state empty; a remove that fails leaves both
\* as they were, and it fails when deleteFunction answers another error.
C20_Remove ==
    run.op = "remove" =>
        /\ Get(run.baseline, "name") = Undefined =>
              /\ pc = "done" /\ calls = <<>>
              /\ state = run.baseline /\ store = run.store
        /\ Get(run.baseline, "name") # Undefined =>
              /\ calls \in {<<>>, <<DELETE>>}
              /\ pc = "done" =>
                    /\ calls = <<DELETE>>
                    /\ answers[1] \in {"ok", NOT_FOUND}
                    /\ state = EmptyObject /\ store = EmptyObject
                    /\ ~Exists(run.baseline.name)
              /\ pc = "failed" => (state = run.baseline /\ store = run.store)
              /\ (DeleteAnswered /\ answers[1] \notin {"ok", NOT_FOUND}) =>
                    (pc = "failed" /\ err = answers[1])

C20_Witness ==
    /\ run.op = "remove"
    /\ pc = "done"
    /\ Get(run.baseline, "name") = "f1"
    /\ run.remote["f1"] # NoFunction
    /\ answers = <<"ok">>
    /\ state = EmptyObject /\ store = EmptyObject

====
